---- MODULE Spec2Model ----
(***************************************************************************)
(* Model of the toast collection of egui-notify (src/src/lib.rs and        *)
(* src/src/toast.rs): the Toasts collection, the per-toast state machine,  *)
(* the update channel and the per-frame pass Toasts::show.                 *)
(*                                                                         *)
(* Numbers.  Seconds and animation values are f32 in the source; here both *)
(* are integers counted in 1/Unit (Unit units = 1 second = value 1.0), so  *)
(* that dt * speed is exact.  Lengths are integer pixels.                  *)
(* Option<T> is a sequence of length 0 (None) or 1 (Some); the duration    *)
(* Option<(f32, f32)> is << >> or <<initial, current>>.                    *)
(***************************************************************************)
EXTENDS Integers, Sequences, FiniteSets, TLC

VARIABLES
    toasts,           \* Toasts.toasts: Vec<Toast>
    held,             \* Toasts.held
    reverse,          \* Toasts.reverse
    default_options,  \* Toasts.default_options
    anchor,           \* Toasts.anchor
    handle,           \* index of the toast the live `&mut Toast` borrows, 0 if none
    nextId,           \* number of toasts created so far, plus one
    channels,         \* number of channels created so far
    pointer,          \* ctx.input(..).pointer: press origin, primary-released event
    frame             \* what the last operation did (hit tests, repaint request)

vars == <<toasts, held, reverse, default_options, anchor, handle, nextId, channels,
          pointer, frame>>

----------------------------------------------------------------------------
(* Bounds of the model *)

Unit == 8
MaxAdds == 2
MaxChannels == 1
MaxQueue == 1
MaxBacklog == 2
MaxOrdered == 3

(* Program constants *)

Speed == 4
MarginX == 8
MarginY == 8
Spacing == 8
PaddingX == 10
PaddingY == 10
TOAST_WIDTH == 180
TOAST_HEIGHT == 34
CaptionFont == 16
IconPadRight == 7
CrossPadLeft == 7

ONE == Unit
DEFAULT_TOAST_DURATION == (7 * Unit) \div 2

None == << >>
Some(x) == <<x>>
IsSome(o) == o # << >>

----------------------------------------------------------------------------
(* toast.rs: options, updates, toasts *)

Levels == {"Info", "Warning", "Error", "Success", "None"}

ToastOptions_default ==
    [duration |-> <<DEFAULT_TOAST_DURATION, DEFAULT_TOAST_DURATION>>,
     level |-> "None", closable |-> TRUE, show_progress_bar |-> TRUE]

ToastOptions_set_duration(o, secs) == [o EXCEPT !.duration = <<secs, secs>>]

ToastUpdate_caption(c) ==
    [use_original_options |-> FALSE, caption |-> Some(c),
     fallback_options |-> None, level |-> None]

ToastUpdate_with_level(u, level) ==
    [u EXCEPT !.level = Some(level),
              !.fallback_options =
                  IF IsSome(u.fallback_options)
                  THEN Some([u.fallback_options[1] EXCEPT !.level = level])
                  ELSE None]

ToastUpdate_with_fallback_options(u, fo) ==
    [u EXCEPT !.fallback_options =
                  Some(IF IsSome(u.level) THEN [fo EXCEPT !.level = u.level[1]]
                       ELSE fo)]

\* a faulty constructor that makes the toast already Idle at value 1
Toast_new_idle(id, caption, options) ==
    [id |-> id,
     caption |-> caption,
     height |-> TOAST_HEIGHT,
     width |-> TOAST_WIDTH,
     original_options |-> options,
     options |-> options,
     toast_hovered |-> FALSE,
     cross_hovered |-> FALSE,
     update_reciever |-> None,
     value |-> ONE,
     fallback_options |-> None,
     state |-> "Idle"]

Toast_new(id, caption, options) ==
    [id |-> id,
     caption |-> caption,
     height |-> TOAST_HEIGHT,
     width |-> TOAST_WIDTH,
     original_options |-> options,
     options |-> options,
     toast_hovered |-> FALSE,
     cross_hovered |-> FALSE,
     update_reciever |-> None,
     value |-> 0,
     fallback_options |-> None,
     state |-> "Appear"]

Toast_basic(id, caption) == Toast_new(id, caption, ToastOptions_default)

\* a faulty with_options that leaves the toast's options alone
Toast_with_options_ignored(t, options) == t

Toast_with_options(t, options) == [t EXCEPT !.options = options]

Toast_level(t, level) == [t EXCEPT !.options.level = level]

Toast_set_level(t, level) == [t EXCEPT !.options.level = level]

Toast_set_closable(t, closable) == [t EXCEPT !.options.closable = closable]

Toast_set_show_progress_bar(t, b) == [t EXCEPT !.options.show_progress_bar = b]

Toast_set_duration(t, duration) ==
    IF IsSome(duration)
    THEN [t EXCEPT !.options.duration = <<duration[1], duration[1]>>]
    ELSE [t EXCEPT !.options.duration = None]

Toast_set_height(t, height) == [t EXCEPT !.height = height]

Toast_set_width(t, width) == [t EXCEPT !.width = width]

Toast_dismiss(t) == [t EXCEPT !.state = "Disapper"]

\* crossbeam_channel::unbounded(): an empty queue and one live sender
NewChannel == [queue |-> << >>, senders |-> TRUE]

\* a faulty create_channel that leaves closable as it was
Toast_create_channel_keeps_closable(t) ==
    [t EXCEPT !.options.duration = None,
              !.update_reciever = Some(NewChannel)]

Toast_create_channel(t) ==
    [t EXCEPT !.options.duration = None,
              !.options.closable = FALSE,
              !.update_reciever = Some(NewChannel)]

----------------------------------------------------------------------------
(* Host collaborators (egui): screen rectangle, text measurement *)

ScreenRect == [min |-> [x |-> 0, y |-> 0], max |-> [x |-> 400, y |-> 300]]

\* A caption is the sequence of the pixel widths of its lines; the font lays a
\* line out CaptionFont high, and a glyph of font size s as an s by s square.
RECURSIVE MaxOf(_)
MaxOf(ws) == IF ws = << >> THEN 0
             ELSE LET m == MaxOf(Tail(ws)) IN IF Head(ws) > m THEN Head(ws) ELSE m

CaptionGalley(caption) == [w |-> MaxOf(caption), h |-> CaptionFont * Len(caption)]

GlyphGalley(font_size) == [w |-> font_size, h |-> font_size]

Max2(a, b) == IF a > b THEN a ELSE b

----------------------------------------------------------------------------
(* lib.rs: AnchorPoint for Align2, easing *)

RIGHT_BOTTOM == [x |-> "Max", y |-> "Max"]

Aligns == {"Min", "Center", "Max"}

Anchors == [x : Aligns, y : Aligns]

\* egui Align::to_sign
ToSign(al) == CASE al = "Min" -> -1 [] al = "Center" -> 0 [] al = "Max" -> 1

\* egui Align2::pos_in_rect
PosInRect(a, r) ==
    [x |-> CASE a.x = "Min" -> r.min.x
             [] a.x = "Center" -> (r.min.x + r.max.x) \div 2
             [] a.x = "Max" -> r.max.x,
     y |-> CASE a.y = "Min" -> r.min.y
             [] a.y = "Center" -> (r.min.y + r.max.y) \div 2
             [] a.y = "Max" -> r.max.y]

pos_in_rect_with_margin(a, r) ==
    [x |-> PosInRect(a, r).x + MarginX * (0 - ToSign(a.x)),
     y |-> PosInRect(a, r).y + MarginY * (0 - ToSign(a.y))]

\* Rect::from_center_size(anchor_pos + size * 0.5 * -sign, size)
align_size_to_pos(a, pos, w, h) ==
    LET minx == pos.x + ((w * (0 - ToSign(a.x))) - w) \div 2
        miny == pos.y + ((h * (0 - ToSign(a.y))) - h) \div 2
    IN [min |-> [x |-> minx, y |-> miny], max |-> [x |-> minx + w, y |-> miny + h]]

offset_height(a, pos, offset) == [pos EXCEPT !.y = pos.y + (0 - ToSign(a.y)) * offset]

side(a) == ToSign(a.x)

\* width * (1 - ease_in_cubic(value)), with 1 - ease_in_cubic(x) = (1 - x)^3
AnimOffset(width, value) ==
    (width * (ONE - value) * (ONE - value) * (ONE - value)) \div (ONE * ONE * ONE)

\* egui Rect::contains
Contains(r, p) ==
    /\ r.min.x <= p.x /\ p.x <= r.max.x
    /\ r.min.y <= p.y /\ p.y <= r.max.y

----------------------------------------------------------------------------
(* lib.rs: Toasts::show, one toast of the pass *)

\* a faulty try_recv that reports the disconnect before the queued messages
TryRecv_disconnect_first(ch) ==
    IF ~ch.senders THEN "Disconnected"
    ELSE IF ch.queue # << >> THEN "Ok" ELSE "Empty"

\* crossbeam Receiver::try_recv: a queued message first, Disconnected only
\* once the queue is empty and every sender is gone
TryRecv(ch) ==
    IF ch.queue # << >> THEN "Ok"
    ELSE IF ~ch.senders THEN "Disconnected" ELSE "Empty"

\* a faulty drain that applies the first queued update and drops the rest
Drain_batched(t) ==
    IF ~IsSome(t.update_reciever) THEN [t |-> t, chan |-> "none"]
    ELSE LET ch == t.update_reciever[1]
             r == TryRecv(ch)
         IN CASE r = "Ok" ->
                   LET u == Head(ch.queue)
                       t1 == IF IsSome(u.caption)
                             THEN [t EXCEPT !.caption = u.caption[1]] ELSE t
                       t2 == IF IsSome(u.fallback_options)
                             THEN [t1 EXCEPT !.fallback_options = u.fallback_options]
                             ELSE t1
                       t3 == IF IsSome(u.level)
                             THEN [t2 EXCEPT !.options.level = u.level[1]] ELSE t2
                   IN [t |-> [t3 EXCEPT !.update_reciever =
                                  Some([ch EXCEPT !.queue = << >>])],
                       chan |-> "update"]
              [] r = "Disconnected" ->
                   IF IsSome(t.fallback_options)
                   THEN [t |-> [t EXCEPT !.options = t.fallback_options[1],
                                         !.fallback_options = None,
                                         !.update_reciever = None],
                         chan |-> "fallback"]
                   ELSE [t |-> [t EXCEPT !.update_reciever = None],
                         chan |-> "dismiss"]
              [] OTHER -> [t |-> t, chan |-> "empty"]

\* a faulty drain that stores the fallback options of every update, present or
\* absent
Drain_overwrites_fallback(t) ==
    IF ~IsSome(t.update_reciever) THEN [t |-> t, chan |-> "none"]
    ELSE LET ch == t.update_reciever[1]
             r == TryRecv(ch)
         IN CASE r = "Ok" ->
                   LET u == Head(ch.queue)
                       t1 == IF IsSome(u.caption)
                             THEN [t EXCEPT !.caption = u.caption[1]] ELSE t
                       t2 == [t1 EXCEPT !.fallback_options = u.fallback_options]
                       t3 == IF IsSome(u.level)
                             THEN [t2 EXCEPT !.options.level = u.level[1]] ELSE t2
                   IN [t |-> [t3 EXCEPT !.update_reciever =
                                  Some([ch EXCEPT !.queue = Tail(ch.queue)])],
                       chan |-> "update"]
              [] r = "Disconnected" ->
                   IF IsSome(t.fallback_options)
                   THEN [t |-> [t EXCEPT !.options = t.fallback_options[1],
                                         !.fallback_options = None,
                                         !.update_reciever = None],
                         chan |-> "fallback"]
                   ELSE [t |-> [t EXCEPT !.update_reciever = None],
                         chan |-> "dismiss"]
              [] OTHER -> [t |-> t, chan |-> "empty"]

\* a faulty drain that schedules the dismissal on every disconnect, fallback
\* options or not
Drain_dismisses_with_fallback(t) ==
    IF ~IsSome(t.update_reciever) THEN [t |-> t, chan |-> "none"]
    ELSE LET ch == t.update_reciever[1]
             r == TryRecv(ch)
         IN CASE r = "Ok" ->
                   LET u == Head(ch.queue)
                       t1 == IF IsSome(u.caption)
                             THEN [t EXCEPT !.caption = u.caption[1]] ELSE t
                       t2 == IF IsSome(u.fallback_options)
                             THEN [t1 EXCEPT !.fallback_options = u.fallback_options]
                             ELSE t1
                       t3 == IF IsSome(u.level)
                             THEN [t2 EXCEPT !.options.level = u.level[1]] ELSE t2
                   IN [t |-> [t3 EXCEPT !.update_reciever =
                                  Some([ch EXCEPT !.queue = Tail(ch.queue)])],
                       chan |-> "update"]
              [] r = "Disconnected" ->
                   IF IsSome(t.fallback_options)
                   THEN [t |-> [t EXCEPT !.options = t.fallback_options[1],
                                         !.fallback_options = None,
                                         !.update_reciever = None],
                         chan |-> "dismiss"]
                   ELSE [t |-> [t EXCEPT !.update_reciever = None],
                         chan |-> "dismiss"]
              [] OTHER -> [t |-> t, chan |-> "empty"]

\* lines 210-238: drain the channel
Drain(t) ==
    IF ~IsSome(t.update_reciever) THEN [t |-> t, chan |-> "none"]
    ELSE LET ch == t.update_reciever[1]
             r == TryRecv(ch)
         IN CASE r = "Ok" ->
                   LET u == Head(ch.queue)
                       t1 == IF IsSome(u.caption)
                             THEN [t EXCEPT !.caption = u.caption[1]] ELSE t
                       t2 == IF IsSome(u.fallback_options)
                             THEN [t1 EXCEPT !.fallback_options = u.fallback_options]
                             ELSE t1
                       t3 == IF IsSome(u.level)
                             THEN [t2 EXCEPT !.options.level = u.level[1]] ELSE t2
                   IN [t |-> [t3 EXCEPT !.update_reciever =
                                  Some([ch EXCEPT !.queue = Tail(ch.queue)])],
                       chan |-> "update"]
              [] r = "Disconnected" ->
                   IF IsSome(t.fallback_options)
                   THEN [t |-> [t EXCEPT !.options = t.fallback_options[1],
                                         !.fallback_options = None,
                                         !.update_reciever = None],
                         chan |-> "fallback"]
                   ELSE [t |-> [t EXCEPT !.update_reciever = None],
                         chan |-> "dismiss"]
              [] OTHER -> [t |-> t, chan |-> "empty"]

\* a faulty tick that never counts down
Tick_never(t, dt) == [t |-> t, ticked |-> FALSE]

\* a faulty tick that counts down under the pointer too
Tick_ignores_hover(t, dt) ==
    IF IsSome(t.options.duration) /\ t.state = "Idle"
    THEN [t |-> [t EXCEPT !.options.duration[2] = @ - dt], ticked |-> TRUE]
    ELSE [t |-> t, ticked |-> FALSE]

\* a faulty tick that counts the remaining time up
Tick_counts_up(t, dt) ==
    IF IsSome(t.options.duration) /\ t.state = "Idle" /\ ~t.toast_hovered
    THEN [t |-> [t EXCEPT !.options.duration[2] = @ + dt], ticked |-> TRUE]
    ELSE [t |-> t, ticked |-> FALSE]

\* lines 240-246: decrease duration if idling
Tick(t, dt) ==
    IF IsSome(t.options.duration) /\ t.state = "Idle" /\ ~t.toast_hovered
    THEN [t |-> [t EXCEPT !.options.duration[2] = @ - dt], ticked |-> TRUE]
    ELSE [t |-> t, ticked |-> FALSE]

\* lines 248-328: measure the content, cache width and height
Measure(t) ==
    LET caption_galley == CaptionGalley(t.caption)
        line_count == Len(t.caption)
        icon_width == caption_galley.h \div line_count
        action == IF t.options.level # "None" THEN GlyphGalley(icon_width)
                  ELSE [w |-> 0, h |-> 0]
        cross == IF t.options.closable THEN GlyphGalley(icon_width)
                 ELSE [w |-> 0, h |-> 0]
        icon_width_padded == IF icon_width = 0 THEN 0 ELSE icon_width + 0 + IconPadRight
        cross_width_padded == IF cross.w = 0 THEN 0 ELSE cross.w + CrossPadLeft + 0
    IN [width |-> icon_width_padded + caption_galley.w + cross_width_padded
                     + PaddingX * 2,
        height |-> Max2(Max2(action.h, caption_galley.h), cross.h) + PaddingY * 2,
        cross |-> cross]

\* lines 330-336: the toast's rectangle
ToastRect(a, t, toast_anchor, pos_y) ==
    LET anim_offset == AnimOffset(t.width, t.value)
        toast_pos_x == toast_anchor.x + anim_offset * side(a)
    IN align_size_to_pos(a, [x |-> toast_pos_x, y |-> pos_y], t.width, t.height)

\* lines 397-406: the close icon's rectangle on screen
CrossScreenRect(t, toast_rect, cross) ==
    LET oy == t.height \div 2 - cross.h \div 2
        ox == t.width - cross.w - 0 - PaddingX
        cross_pos == [x |-> toast_rect.min.x + ox, y |-> toast_rect.min.y + oy]
    IN [min |-> cross_pos,
        max |-> [x |-> cross_pos.x + cross.w, y |-> cross_pos.y + cross.h]]

\* a faulty animation step that sends a vanished toast back to Idle
Animate_back_to_idle(t, dt) ==
    IF t.state = "Appear"
    THEN LET v == t.value + dt * Speed
         IN IF v >= ONE THEN [t EXCEPT !.value = ONE, !.state = "Idle"]
            ELSE [t EXCEPT !.value = v]
    ELSE IF t.state = "Disapper"
    THEN LET v == t.value - dt * Speed
         IN IF v <= 0 THEN [t EXCEPT !.value = v, !.state = "Idle"]
            ELSE [t EXCEPT !.value = v]
    ELSE t

\* a faulty animation that lets an appearing value overshoot 1
Animate_no_clamp(t, dt) ==
    IF t.state = "Appear"
    THEN LET v == t.value + dt * Speed
         IN IF v >= ONE THEN [t EXCEPT !.value = v, !.state = "Idle"]
            ELSE [t EXCEPT !.value = v]
    ELSE IF t.state = "Disapper"
    THEN LET v == t.value - dt * Speed
         IN IF v <= 0 THEN [t EXCEPT !.value = v, !.state = "Disappeared"]
            ELSE [t EXCEPT !.value = v]
    ELSE t

\* lines 424-440: animations
Animate(t, dt) ==
    IF t.state = "Appear"
    THEN LET v == t.value + dt * Speed
         IN IF v >= ONE THEN [t EXCEPT !.value = ONE, !.state = "Idle"]
            ELSE [t EXCEPT !.value = v]
    ELSE IF t.state = "Disapper"
    THEN LET v == t.value - dt * Speed
         IN IF v <= 0 THEN [t EXCEPT !.value = v, !.state = "Disappeared"]
            ELSE [t EXCEPT !.value = v]
    ELSE t

----------------------------------------------------------------------------
(* lib.rs: Toasts::show *)

\* line 189: remove disappeared toasts
Alive(t) == t.state # "Disappeared"

\* a faulty pruning that keeps every toast
Prune_keeps_all(ts) == ts

Prune(ts) == SelectSeq(ts, Alive)

\* a faulty expiry that waits until the remaining time is below zero
Expire_below_zero(t) ==
    IF IsSome(t.options.duration) /\ t.options.duration[2] < 0
    THEN [t EXCEPT !.state = "Disapper"]
    ELSE t

\* a faulty expiry that also sends away a toast without duration
Expire_untimed(t) ==
    IF ~IsSome(t.options.duration) \/ t.options.duration[2] <= 0
    THEN [t EXCEPT !.state = "Disapper"]
    ELSE t

\* lines 192-198: start disappearing expired toasts
Expire(t) ==
    IF IsSome(t.options.duration) /\ t.options.duration[2] <= 0
    THEN [t EXCEPT !.state = "Disapper"]
    ELSE t

\* a faulty reset that clears `held` in every frame
ReleaseHeld_every_frame(h, released) == FALSE

\* lines 201-203: `held` is cleared on a primary release
ReleaseHeld(h, released) == IF released THEN FALSE ELSE h

\* lines 408-411: the hover flags
Hover(t, closable, hover_pos, toast_rect, cross_rect) ==
    IF closable /\ IsSome(hover_pos)
    THEN [t EXCEPT !.toast_hovered = Contains(toast_rect, hover_pos[1]),
                   !.cross_hovered = Contains(cross_rect, hover_pos[1])]
    ELSE t

\* lines 413-418: a press on the close icon
Pressed(closable, press_origin, cross_rect, h) ==
    closable /\ IsSome(press_origin) /\ Contains(cross_rect, press_origin[1]) /\ ~h

\* ctx.animate_value_with_time(toast_id, toast_anchor.y, 0.1): the host eases the
\* vertical position towards the layout cursor; it has either arrived or still
\* lags one slot further from the anchor
AnimatedY(a, height, toast_anchor, lagging) ==
    IF lagging THEN offset_height(a, toast_anchor, Spacing + height).y
    ELSE toast_anchor.y

\* what the pass carries from one toast to the next
Carry(ts, dismiss, h, repaint, toast_anchor, painted) ==
    [toasts |-> ts, dismiss |-> dismiss, held |-> h, repaint |-> repaint,
     toast_anchor |-> toast_anchor, painted |-> painted]

\* lines 408-440 for toast i: hover flags, press, cursor, animation
HitAndAnimate(t, i, chan, ticked, began, toast_rect, cross_rect, acc, in) ==
    Carry(Append(acc.toasts,
                 Animate(Hover(t, t.options.closable, in.hover_pos,
                               toast_rect, cross_rect), in.dt)),
          IF Pressed(t.options.closable, in.press_origin, cross_rect, acc.held)
          THEN Some(i)
          ELSE IF chan = "dismiss" THEN Some(i) ELSE acc.dismiss,
          acc.held
              \/ Pressed(t.options.closable, in.press_origin, cross_rect, acc.held),
          acc.repaint \/ ticked \/ t.state \in {"Appear", "Disapper"},
          offset_height(in.anchor, acc.toast_anchor, Spacing + t.height),
          Append(acc.painted,
              [was |-> in.before[i].state,
               began |-> began,
               chan |-> chan,
               in_toast |-> IsSome(in.hover_pos)
                            /\ Contains(toast_rect, in.hover_pos[1]),
               in_cross |-> t.options.closable /\ IsSome(in.hover_pos)
                            /\ Contains(cross_rect, in.hover_pos[1]),
               press_in_cross |-> t.options.closable /\ IsSome(in.press_origin)
                                  /\ Contains(cross_rect, in.press_origin[1]),
               hit |-> Pressed(t.options.closable, in.press_origin, cross_rect,
                               acc.held)]))

\* lines 330-406 for toast i: its rectangle and its close icon's
Place(t, i, chan, ticked, began, cross, toast_rect, acc, in) ==
    HitAndAnimate(t, i, chan, ticked, began, toast_rect,
                  CrossScreenRect(t, toast_rect, cross), acc, in)

\* lines 248-336 for toast i: measure, cache the size, place
Layout(t, i, chan, ticked, began, m, acc, in) ==
    Place([t EXCEPT !.width = m.width, !.height = m.height], i, chan, ticked, began,
          m.cross,
          ToastRect(in.anchor, [t EXCEPT !.width = m.width, !.height = m.height],
                    acc.toast_anchor,
                    AnimatedY(in.anchor, m.height, acc.toast_anchor, in.lag[i])),
          acc, in)

\* lines 240-246 for toast i, then the rest
Ticked(k, i, chan, began, acc, in) ==
    Layout(k.t, i, chan, k.ticked, began, Measure(k.t), acc, in)

\* lines 209-238 for toast i, then the rest
Drained(d, i, began, acc, in) ==
    Ticked(Tick(d.t, in.dt), i, d.chan, began, acc, in)

\* lines 208-441: the pass over the toasts, from toast i on
RECURSIVE ShowLoop(_, _, _, _)
ShowLoop(ts, i, acc, in) ==
    IF i > Len(ts) THEN acc
    ELSE ShowLoop(ts, i + 1, Drained(Drain(ts[i]), i, ts[i].state, acc, in), in)

\* a faulty dismissal that dismisses the recorded toast and every later one
ApplyDismiss_from_recorded(ts, dismiss) ==
    IF IsSome(dismiss)
    THEN [i \in 1..Len(ts) |-> IF i >= dismiss[1] THEN Toast_dismiss(ts[i]) ELSE ts[i]]
    ELSE ts

\* a faulty dismissal that removes the recorded toast at once
ApplyDismiss_removes(ts, dismiss) ==
    IF IsSome(dismiss)
    THEN [i \in 1..(Len(ts) - 1) |-> IF i < dismiss[1] THEN ts[i] ELSE ts[i + 1]]
    ELSE ts

\* lines 447-449: the recorded dismissal
ApplyDismiss(ts, dismiss) ==
    IF IsSome(dismiss)
    THEN [ts EXCEPT ![dismiss[1]] = Toast_dismiss(@)]
    ELSE ts

\* lines 189-198: prune, then expire
Prepass(ts) == [i \in 1..Len(Prune(ts)) |-> Expire(Prune(ts)[i])]

\* the pass, started at the anchor with nothing recorded
Pass(ts, h, a, ptr, dt, hover_pos, lag) ==
    ShowLoop(Prepass(ts), 1,
             Carry(<< >>, None, ReleaseHeld(h, ptr.released), FALSE,
                   pos_in_rect_with_margin(a, ScreenRect), << >>),
             [dt |-> dt, hover_pos |-> hover_pos,
              press_origin |-> ptr.press_origin, anchor |-> a, lag |-> lag,
              before |-> Prune(ts)])

\* a faulty end of frame that removes the disappeared toasts once more before
\* the recorded dismissal
Finish_retain_late(acc, dt) ==
    [toasts |-> ApplyDismiss(Prune(acc.toasts), acc.dismiss),
     held |-> acc.held,
     frame |-> [op |-> "show", dt |-> dt, dismiss |-> acc.dismiss,
                repaint |-> acc.repaint, painted |-> acc.painted]]

\* lines 443-449: the repaint request and the recorded dismissal
Finish(acc, dt) ==
    [toasts |-> ApplyDismiss(acc.toasts, acc.dismiss),
     held |-> acc.held,
     frame |-> [op |-> "show", dt |-> dt, dismiss |-> acc.dismiss,
                repaint |-> acc.repaint, painted |-> acc.painted]]

\* lines 179-450
ShowResult(ts, h, a, ptr, dt, hover_pos, lag) ==
    Finish(Pass(ts, h, a, ptr, dt, hover_pos, lag), dt)

\* the record of an operation other than show
Called(op) ==
    [op |-> op, dt |-> 0, dismiss |-> None, repaint |-> FALSE, painted |-> << >>]

----------------------------------------------------------------------------
(* The inputs the model draws from *)

CaptionA == <<40>>
CaptionB == <<56>>
\* a caption of two lines
CaptionTall == <<40, 24>>

\* frame times (stable_dt), in 1/Unit seconds
DTs == {0, 1, 2}

\* pointer positions: on the close icon of the first slot, on the body of the
\* first slot, on the close icon of the second slot
PCross1 == [x |-> 380, y |-> 274]
PBody1 == [x |-> 300, y |-> 274]
PCross2 == [x |-> 380, y |-> 230]

\* a toast the caller owns, before it is added
Prepared(t, subscribed, dismissed) ==
    IF subscribed
    THEN IF dismissed THEN Toast_dismiss(Toast_create_channel(t))
         ELSE Toast_create_channel(t)
    ELSE IF dismissed THEN Toast_dismiss(t) ELSE t

Opt(duration, closable) ==
    [ToastOptions_default EXCEPT !.duration = duration, !.closable = closable]

FallbackOptions == ToastOptions_set_duration(ToastOptions_default, 2)

UCaption == ToastUpdate_caption(CaptionB)
ULevel == ToastUpdate_with_level(ToastUpdate_caption(CaptionB), "Success")
UFallback ==
    ToastUpdate_with_level(
        ToastUpdate_with_fallback_options(ToastUpdate_caption(CaptionA),
                                          FallbackOptions), "Error")

NoLag == [i \in 1..MaxAdds |-> FALSE]
NoLagOrdered == [i \in 1..MaxOrdered |-> FALSE]
Lags == [1..MaxAdds -> BOOLEAN]

----------------------------------------------------------------------------
(* The operations *)

\* Toasts::new()
Init ==
    /\ toasts = << >>
    /\ held = FALSE
    /\ reverse = FALSE
    /\ default_options = ToastOptions_default
    /\ anchor = RIGHT_BOTTOM
    /\ handle = 0
    /\ nextId = 1
    /\ channels = 0
    /\ pointer = [press_origin |-> None, released |-> FALSE]
    /\ frame = Called("new")

\* Toasts::new().reverse(b): the insertion order, chosen at construction
Reverse(b) ==
    /\ frame.op = "new"
    /\ reverse' = b
    /\ frame' = Called("reverse")
    /\ UNCHANGED <<toasts, held, default_options, anchor, handle, nextId, channels,
                   pointer>>

\* Toasts::new().with_anchor(a): the screen anchor, chosen at construction
WithAnchor(a) ==
    /\ frame.op = "new"
    /\ anchor' = a
    /\ frame' = Called("with_anchor")
    /\ UNCHANGED <<toasts, held, reverse, default_options, handle, nextId, channels,
                   pointer>>

\* Toasts::add: insert at the front or push at the back
AddTo(ts, rev, toast) == IF rev THEN <<toast>> \o ts ELSE Append(ts, toast)

\* a faulty add that always returns a reference to the last toast
AddIndex_last(ts, rev) == Len(ts) + 1

AddIndex(ts, rev) == IF rev THEN 1 ELSE Len(ts) + 1

\* toasts.add(Toast::basic(caption).with_options(&options))
Add(caption, options) ==
    /\ nextId <= MaxAdds
    /\ toasts' = AddTo(toasts, reverse,
                       Toast_with_options(Toast_basic(nextId, caption), options))
    /\ handle' = AddIndex(toasts, reverse)
    /\ nextId' = nextId + 1
    /\ frame' = Called("add")
    /\ UNCHANGED <<held, reverse, default_options, anchor, channels, pointer>>

\* toasts.add(..) by a host that adds one more toast than the others
AddOrdered(caption, options) ==
    /\ nextId <= MaxOrdered
    /\ toasts' = AddTo(toasts, reverse,
                       Toast_with_options(Toast_basic(nextId, caption), options))
    /\ handle' = AddIndex(toasts, reverse)
    /\ nextId' = nextId + 1
    /\ frame' = Called("add")
    /\ UNCHANGED <<held, reverse, default_options, anchor, channels, pointer>>

\* the caller builds a toast, subscribes or dismisses it or not, then hands it
\* to Toasts::add
AddToast(subscribed, dismissed) ==
    /\ nextId <= MaxAdds
    /\ subscribed => channels < MaxChannels
    /\ toasts' = AddTo(toasts, reverse,
                       Prepared(Toast_basic(nextId, CaptionA), subscribed, dismissed))
    /\ handle' = AddIndex(toasts, reverse)
    /\ nextId' = nextId + 1
    /\ channels' = IF subscribed THEN channels + 1 ELSE channels
    /\ frame' = Called("add")
    /\ UNCHANGED <<held, reverse, default_options, anchor, pointer>>

\* Toasts::base_toast
base_toast(id, caption, options) == Toast_with_options(Toast_basic(id, caption), options)

Shortcuts == {"success", "info", "warning", "error", "basic"}

ShortcutLevel(kind) ==
    CASE kind = "success" -> "Success"
      [] kind = "info" -> "Info"
      [] kind = "warning" -> "Warning"
      [] kind = "error" -> "Error"

\* Toasts::success, info, warning, error, basic
ShortcutToast(kind, id, caption, options) ==
    IF kind = "basic" THEN base_toast(id, caption, options)
    ELSE Toast_level(base_toast(id, caption, options), ShortcutLevel(kind))

Shortcut(kind, caption) ==
    /\ nextId <= MaxAdds
    /\ toasts' = AddTo(toasts, reverse,
                       ShortcutToast(kind, nextId, caption, default_options))
    /\ handle' = AddIndex(toasts, reverse)
    /\ nextId' = nextId + 1
    /\ frame' = Called(kind)
    /\ UNCHANGED <<held, reverse, default_options, anchor, channels, pointer>>

\* the application assigns the public field default_options
SetDefaultOptions(options) ==
    /\ default_options' = options
    /\ handle' = 0
    /\ frame' = Called("set_default")
    /\ UNCHANGED <<toasts, held, reverse, anchor, nextId, channels, pointer>>

DismissOldestResult(ts) ==
    IF Len(ts) > 0 THEN [ts EXCEPT ![1] = Toast_dismiss(@)] ELSE ts

DismissLatestResult(ts) ==
    IF Len(ts) > 0 THEN [ts EXCEPT ![Len(ts)] = Toast_dismiss(@)] ELSE ts

\* a faulty dismiss_all that restarts every toast's exit from value 1
DismissAllResult_from_one(ts) ==
    [i \in 1..Len(ts) |-> [Toast_dismiss(ts[i]) EXCEPT !.value = ONE]]

DismissAllResult(ts) == [i \in 1..Len(ts) |-> Toast_dismiss(ts[i])]

DismissOldest ==
    /\ toasts' = DismissOldestResult(toasts)
    /\ handle' = 0
    /\ frame' = Called("dismiss_oldest")
    /\ UNCHANGED <<held, reverse, default_options, anchor, nextId, channels, pointer>>

DismissLatest ==
    /\ toasts' = DismissLatestResult(toasts)
    /\ handle' = 0
    /\ frame' = Called("dismiss_latest")
    /\ UNCHANGED <<held, reverse, default_options, anchor, nextId, channels, pointer>>

DismissAll ==
    /\ toasts' = DismissAllResult(toasts)
    /\ handle' = 0
    /\ frame' = Called("dismiss_all")
    /\ UNCHANGED <<held, reverse, default_options, anchor, nextId, channels, pointer>>

\* Toast::create_channel through the reference add returned
CreateChannel ==
    /\ handle # 0
    /\ channels < MaxChannels
    /\ toasts' = [toasts EXCEPT ![handle] = Toast_create_channel(@)]
    /\ channels' = channels + 1
    /\ frame' = Called("create_channel")
    /\ UNCHANGED <<held, reverse, default_options, anchor, handle, nextId, pointer>>

\* Toast::set_closable through the reference add returned
SetClosable(b) ==
    /\ handle # 0
    /\ toasts' = [toasts EXCEPT ![handle] = Toast_set_closable(@, b)]
    /\ frame' = Called("set")
    /\ UNCHANGED <<held, reverse, default_options, anchor, handle, nextId, channels, pointer>>

\* Toast::set_level through the reference add returned
SetLevel(level) ==
    /\ handle # 0
    /\ toasts' = [toasts EXCEPT ![handle] = Toast_set_level(@, level)]
    /\ frame' = Called("set")
    /\ UNCHANGED <<held, reverse, default_options, anchor, handle, nextId, channels, pointer>>

\* Toast::set_show_progress_bar through the reference add returned
SetShowProgressBar(b) ==
    /\ handle # 0
    /\ toasts' = [toasts EXCEPT ![handle] = Toast_set_show_progress_bar(@, b)]
    /\ frame' = Called("set")
    /\ UNCHANGED <<held, reverse, default_options, anchor, handle, nextId, channels, pointer>>

\* Toast::set_duration through the reference add returned
SetDuration(duration) ==
    /\ handle # 0
    /\ toasts' = [toasts EXCEPT ![handle] = Toast_set_duration(@, duration)]
    /\ frame' = Called("set")
    /\ UNCHANGED <<held, reverse, default_options, anchor, handle, nextId, channels,
                   pointer>>

\* Toast::set_height through the reference add returned
SetHeight(height) ==
    /\ handle # 0
    /\ toasts' = [toasts EXCEPT ![handle] = Toast_set_height(@, height)]
    /\ frame' = Called("set_height")
    /\ UNCHANGED <<held, reverse, default_options, anchor, handle, nextId, channels,
                   pointer>>

\* Toast::set_width through the reference add returned
SetWidth(width) ==
    /\ handle # 0
    /\ toasts' = [toasts EXCEPT ![handle] = Toast_set_width(@, width)]
    /\ frame' = Called("set_width")
    /\ UNCHANGED <<held, reverse, default_options, anchor, handle, nextId, channels,
                   pointer>>

\* Toast::dismiss through the reference add returned
DismissHandle ==
    /\ handle # 0
    /\ toasts' = [toasts EXCEPT ![handle] = Toast_dismiss(@)]
    /\ frame' = Called("dismiss")
    /\ UNCHANGED <<held, reverse, default_options, anchor, handle, nextId, channels, pointer>>

\* Sender::send from a producer
Send(i, u) ==
    /\ i \in 1..Len(toasts)
    /\ IsSome(toasts[i].update_reciever)
    /\ toasts[i].update_reciever[1].senders
    /\ Len(toasts[i].update_reciever[1].queue) < MaxQueue
    /\ toasts' = [toasts EXCEPT ![i].update_reciever[1].queue = Append(@, u)]
    /\ UNCHANGED <<held, reverse, default_options, anchor, handle, nextId, channels, pointer>>
    /\ frame' = Called("host")

\* Sender::send from a producer that runs ahead of the frames
SendBacklog(i, u) ==
    /\ i \in 1..Len(toasts)
    /\ IsSome(toasts[i].update_reciever)
    /\ toasts[i].update_reciever[1].senders
    /\ Len(toasts[i].update_reciever[1].queue) < MaxBacklog
    /\ toasts' = [toasts EXCEPT ![i].update_reciever[1].queue = Append(@, u)]
    /\ UNCHANGED <<held, reverse, default_options, anchor, handle, nextId, channels,
                   pointer>>
    /\ frame' = Called("host")

\* the producer drops its Sender
DropSender(i) ==
    /\ i \in 1..Len(toasts)
    /\ IsSome(toasts[i].update_reciever)
    /\ toasts[i].update_reciever[1].senders
    /\ toasts' = [toasts EXCEPT ![i].update_reciever[1].senders = FALSE]
    /\ UNCHANGED <<held, reverse, default_options, anchor, handle, nextId, channels, pointer>>
    /\ frame' = Called("host")

\* the host sees the primary button go down at p
PointerPress(p) ==
    /\ ~IsSome(pointer.press_origin)
    /\ pointer' = [pointer EXCEPT !.press_origin = Some(p)]
    /\ UNCHANGED <<toasts, held, reverse, default_options, anchor, handle, nextId, channels>>
    /\ frame' = Called("host")

\* the host sees the primary button go up
PointerRelease ==
    /\ IsSome(pointer.press_origin)
    /\ pointer' = [press_origin |-> None, released |-> TRUE]
    /\ UNCHANGED <<toasts, held, reverse, default_options, anchor, handle, nextId, channels>>
    /\ frame' = Called("host")

\* Toasts::show(ctx); the frame's events are gone in the next frame.  A toast
\* dismissed again after it had disappeared keeps losing value; the first
\* conjunct stops the exploration there.  A Disappeared toast loses nothing
\* more: the pass removes it.
Show(dt, hover_pos, lag) ==
    /\ \A i \in 1..Len(toasts) :
          toasts[i].state = "Disapper" => 2 * toasts[i].value >= 0 - ONE
    /\ LET r == ShowResult(toasts, held, anchor, pointer, dt, hover_pos, lag)
       IN /\ toasts' = r.toasts
          /\ held' = r.held
          /\ frame' = r.frame
    /\ handle' = 0
    /\ pointer' = [pointer EXCEPT !.released = FALSE]
    /\ UNCHANGED <<reverse, default_options, anchor, nextId, channels>>

----------------------------------------------------------------------------
(* Specifications: the same operations under different hosts *)

\* a host whose producers update toasts through channels and drop them, whose
\* user presses close icons, and whose application dismisses toasts
Next ==
    \/ Add(CaptionA, Opt(None, TRUE))
    \/ CreateChannel
    \/ \E i \in 1..MaxAdds, u \in {UCaption, UFallback} : Send(i, u)
    \/ \E i \in 1..MaxAdds : DropSender(i)
    \/ \E p \in {PCross1, PCross2} : PointerPress(p)
    \/ PointerRelease
    \/ DismissOldest
    \/ DismissAll
    \/ \E dt \in {1, 2} : Show(dt, None, NoLag)

Spec == Init /\ [][Next]_vars

\* a host that adds timed, closable or not closable toasts, dismisses them,
\* and whose pointer hovers
NextTimer ==
    \/ \E d \in {None, <<0, 0>>, <<2, 2>>}, c \in BOOLEAN : Add(CaptionA, Opt(d, c))
    \/ DismissOldest
    \/ DismissLatest
    \/ DismissAll
    \/ \E dt \in DTs, h \in {None, Some(PBody1)} : Show(dt, h, NoLag)

SpecTimer == Init /\ [][NextTimer]_vars

\* a host whose user presses and releases the primary button on close icons
\* while the toasts are still moving to their slots
NextPointer ==
    \/ \E c \in BOOLEAN : Add(CaptionA, Opt(None, c))
    \/ DismissOldest
    \/ \E p \in {PCross1, PCross2} : PointerPress(p)
    \/ PointerRelease
    \/ \E dt \in {1, 2}, lag \in Lags : Show(dt, None, lag)

SpecPointer == Init /\ [][NextPointer]_vars

\* a host that configures each toast through the reference add returns,
\* subscribes it to a channel or not, and shows
NextBuilder ==
    \/ \E cap \in {CaptionA, CaptionB}, c \in BOOLEAN : Add(cap, Opt(<<2, 2>>, c))
    \/ \E level \in {"None", "Info"} : SetLevel(level)
    \/ \E b \in BOOLEAN : SetShowProgressBar(b)
    \/ DismissHandle
    \/ CreateChannel
    \/ \E dt \in {1, 2} : Show(dt, None, NoLag)

SpecBuilder == Init /\ [][NextBuilder]_vars

\* a host that chooses the insertion order, adds toasts and dismisses the
\* oldest or the latest
NextOrder ==
    \/ \E b \in BOOLEAN : Reverse(b)
    \/ \E c \in BOOLEAN : Add(CaptionA, Opt(None, c))
    \/ DismissOldest
    \/ DismissLatest
    \/ \E dt \in {1, 2} : Show(dt, None, NoLag)

SpecOrder == Init /\ [][NextOrder]_vars

\* a host whose producer queues several updates between two frames
NextChannel ==
    \/ Add(CaptionA, Opt(None, TRUE))
    \/ CreateChannel
    \/ (handle # 0 /\ IsSome(toasts[handle].update_reciever)) /\ SetDuration(Some(3))
    \/ \E i \in 1..MaxAdds, u \in {UCaption, ULevel, UFallback} : SendBacklog(i, u)
    \/ \E i \in 1..MaxAdds : DropSender(i)
    \/ \E dt \in {1, 2} : Show(dt, None, NoLag)

SpecChannel == Init /\ [][NextChannel]_vars

\* a host that sets the default options, adds toasts through the shortcuts or
\* hands over toasts it built, and reconfigures them through the handle
NextShortcut ==
    \/ \E o \in {ToastOptions_default, [Opt(None, FALSE) EXCEPT !.level = "Info"]} :
           SetDefaultOptions(o)
    \/ \E kind \in Shortcuts : Shortcut(kind, CaptionA)
    \/ \E sub \in BOOLEAN, dis \in BOOLEAN : AddToast(sub, dis)
    \/ SetClosable(FALSE)
    \/ SetLevel("Warning")
    \/ Show(2, None, NoLag)

SpecShortcut == Init /\ [][NextShortcut]_vars

\* a host that only adds toasts, dismisses them all at once and shows
NextDismissAll ==
    \/ Add(CaptionA, Opt(None, TRUE))
    \/ DismissAll
    \/ \E dt \in DTs : Show(dt, None, NoLag)

SpecDismissAll == Init /\ [][NextDismissAll]_vars

\* a host whose application binds toasts to a channel, dismissed beforehand or
\* not, and calls nothing on them afterwards; the producer sends and drops, the
\* user hovers, presses and releases on the toasts
NextBound ==
    \/ \E c \in BOOLEAN : Add(CaptionA, Opt(None, c))
    \/ (handle # 0 /\ ~IsSome(toasts[handle].update_reciever)) /\ DismissHandle
    \/ CreateChannel
    \/ \E i \in 1..MaxAdds : Send(i, UCaption)
    \/ \E i \in 1..MaxAdds : DropSender(i)
    \/ \E p \in {PCross1, PBody1} : PointerPress(p)
    \/ PointerRelease
    \/ \E dt \in {1, 2}, h \in {None, Some(PCross1)} : Show(dt, h, NoLag)

SpecBound == Init /\ [][NextBound]_vars

\* default options with a short duration, built with ToastOptions::set_duration
ShortOptions == ToastOptions_set_duration(ToastOptions_default, 2)

\* a host that sets durations every way the API offers: on the default options
\* the shortcuts copy, on a toast, on the fallback options of an update
NextDuration ==
    \/ SetDefaultOptions(ShortOptions)
    \/ default_options = ShortOptions
       /\ Shortcut("basic", CaptionA)
    \/ CreateChannel
    \/ \E d \in {None, Some(3)} : SetDuration(d)
    \/ \E i \in 1..MaxAdds : Send(i, UFallback)
    \/ \E i \in 1..MaxAdds : DropSender(i)
    \/ \E dt \in {1, 2}, h \in {None, Some(PBody1)} : Show(dt, h, NoLag)

SpecDuration == Init /\ [][NextDuration]_vars

\* a host that chooses the insertion order, adds up to three toasts and calls
\* a setter or dismiss on the reference add returned
NextHandle ==
    \/ \E b \in BOOLEAN : Reverse(b)
    \/ AddOrdered(CaptionA, Opt(None, TRUE))
    \/ SetLevel("Info")
    \/ DismissHandle
    \/ \E dt \in {1, 2} : Show(dt, None, NoLagOrdered)

SpecHandle == Init /\ [][NextHandle]_vars

\* a host that gives its toasts a box size of its own
NextSize ==
    \/ \E cap \in {CaptionA, CaptionB}, c \in BOOLEAN : Add(cap, Opt(None, c))
    \/ SetHeight(2 * TOAST_HEIGHT)
    \/ SetWidth(2 * TOAST_WIDTH)
    \/ \E dt \in {1, 2} : Show(dt, None, NoLag)

SpecSize == Init /\ [][NextSize]_vars

\* a host that chooses one of the nine anchors, adds toasts of one or two lines
\* and shows
NextAnchor ==
    \/ \E a \in Anchors : WithAnchor(a)
    \/ \E cap \in {CaptionA, CaptionTall} : Add(cap, Opt(None, TRUE))
    \/ \E dt \in {1, 2} : Show(dt, None, NoLag)

SpecAnchor == Init /\ [][NextAnchor]_vars

\* a host whose user holds the primary button down on one spot while toasts
\* come, go and settle in their slots
NextPress ==
    \/ \E c \in BOOLEAN : Add(CaptionA, Opt(None, c))
    \/ DismissOldest
    \/ PointerPress(PCross1)
    \/ PointerRelease
    \/ \E dt \in {1, 2} : Show(dt, None, NoLag)

SpecPress == Init /\ [][NextPress]_vars

\* a host that keeps calling show with dt > 0, adds toasts with or without a
\* duration, never hovers, and dismisses a toast at most once
NextLive ==
    \/ \E d \in {None, <<2, 2>>} : Add(CaptionA, Opt(d, TRUE))
    \/ (Len(toasts) > 0 /\ toasts[1].state \in {"Appear", "Idle"}) /\ DismissOldest
    \/ \E dt \in {1, 2} : Show(dt, None, NoLag)

\* show called once more, with dt > 0
ShowAgain == \E dt \in {1, 2} : Show(dt, None, NoLag)

\* show keeps being called.  ShowAgain is enabled in every state of this host
\* (a frame time other than the last one's changes the frame record), so the
\* condition is WF_vars(ShowAgain) written without ENABLED.
SpecLive ==
    /\ Init
    /\ [][NextLive]_vars
    /\ []<><<ShowAgain>>_vars

\* a host that calls every dismiss operation and show on any collection, the
\* empty one included, whose user presses close icons and whose producers
\* drop their senders
NextSafe ==
    \/ Add(CaptionA, Opt(None, TRUE))
    \/ CreateChannel
    \/ \E i \in 1..MaxAdds : DropSender(i)
    \/ \E p \in {PCross1, PCross2} : PointerPress(p)
    \/ PointerRelease
    \/ DismissOldest
    \/ DismissLatest
    \/ DismissAll
    \/ \E dt \in {1, 2} : Show(dt, None, NoLag)

SpecSafe == Init /\ [][NextSafe]_vars

----------------------------------------------------------------------------
(* The claims *)

\* toast i before a step and toast j after it are the same toast
Same(i, j) ==
    /\ i \in 1..Len(toasts)
    /\ j \in 1..Len(toasts')
    /\ toasts[i].id = toasts'[j].id

\* the step is a call of show
ShowStep == frame'.op = "show"

\* C1: every toast's animation value lies in [0, 1] after any sequence of
\* operations; a Disappearing toast whose value drops to 0 or below is clamped
\* to 0 when it becomes Disappeared.
C1_ValueInUnitRange ==
    \A i \in 1..Len(toasts) : toasts[i].value >= 0 /\ toasts[i].value <= ONE

StateRank(st) ==
    CASE st = "Appear" -> 0
      [] st = "Idle" -> 1
      [] st = "Disapper" -> 2
      [] st = "Disappeared" -> 3

\* C2: a toast's state only moves forward along Appearing, Idle, Disappearing,
\* Disappeared (a dismissal may skip Idle); no operation moves a toast from
\* Disappeared back to Disappearing.
C2_StateOnlyForward ==
    [][\A i \in 1..Len(toasts), j \in 1..Len(toasts') :
          Same(i, j) => StateRank(toasts'[j].state) >= StateRank(toasts[i].state)]_vars

\* C3: a subscribed toast without fallback options that observes a disconnect
\* during show is Disappearing when that show returns, whatever else happens
\* in the frame.
C3_DisconnectDismisses ==
    frame.op = "show" =>
        \A i \in 1..Len(frame.painted) :
            frame.painted[i].chan = "dismiss" => toasts[i].state = "Disapper"

\* C4: a press on the close icon of a closable toast while the guard is not set
\* records that toast for dismissal, sets the guard, and the toast is dismissed
\* at the end of that show, whatever happens to the toasts visited later.
C4_PressDismisses ==
    frame.op = "show" =>
        \A i \in 1..Len(frame.painted) :
            frame.painted[i].hit =>
                /\ frame.dismiss = Some(i)
                /\ held
                /\ toasts[i].state = "Disapper"

\* the channel of toast t is empty and every sender is gone
Disconnected(t) ==
    /\ IsSome(t.update_reciever)
    /\ TryRecv(t.update_reciever[1]) = "Disconnected"

\* options o after the countdown of a frame of length dt, for a toast in state
\* st with hover flag hovered when the countdown runs
CountedDown(o, st, hovered, dt) ==
    IF IsSome(o.duration) /\ st = "Idle" /\ ~hovered
    THEN [o EXCEPT !.duration[2] = @ - dt]
    ELSE o

\* C5 as stated: when a subscribed toast with stored fallback options observes
\* a disconnect during show, its options are exactly the fallback options when
\* that show returns.
C5_OptionsExactlyFallback ==
    [][\A i \in 1..Len(toasts), j \in 1..Len(toasts') :
          (/\ Same(i, j) /\ ShowStep /\ Alive(toasts[i])
           /\ Disconnected(toasts[i]) /\ IsSome(toasts[i].fallback_options))
          => toasts'[j].options = toasts[i].fallback_options[1]]_vars

\* C5 amended: when a subscribed toast with stored fallback options observes a
\* disconnect during show, its options become the most recently received
\* fallback options, of which the remaining time is already counted down by
\* that frame's dt if the toast is Idle and not hovered; the disconnect does not
\* record the toast for dismissal (only a press on its close icon can, in that
\* frame); the stored fallback and the subscription are cleared.  A toast
\* without subscription is not handled by the channel in any later show (its
\* options are only counted down, it is recorded for dismissal only by a
\* press), and it stays without subscription: only the toast a live reference
\* from add points to can be subscribed, and no such reference outlives a show.
C5_FallbackReplacesOnce ==
    [][\A i \in 1..Len(toasts), j \in 1..Len(toasts') :
          Same(i, j) =>
            /\ (/\ ShowStep /\ Alive(toasts[i])
                /\ Disconnected(toasts[i]) /\ IsSome(toasts[i].fallback_options))
               => /\ frame'.painted[j].chan = "fallback"
                  /\ toasts'[j].options =
                         CountedDown(toasts[i].fallback_options[1],
                                     frame'.painted[j].began,
                                     toasts[i].toast_hovered, frame'.dt)
                  /\ toasts'[j].fallback_options = None
                  /\ toasts'[j].update_reciever = None
                  /\ (frame'.dismiss = Some(j) => frame'.painted[j].hit)
                  /\ handle' = 0
            /\ (ShowStep /\ Alive(toasts[i]) /\ toasts[i].update_reciever = None)
               => /\ frame'.painted[j].chan = "none"
                  /\ toasts'[j].options =
                         CountedDown(toasts[i].options, frame'.painted[j].began,
                                     toasts[i].toast_hovered, frame'.dt)
                  /\ toasts'[j].fallback_options = toasts[i].fallback_options
                  /\ (frame'.dismiss = Some(j) => frame'.painted[j].hit)
            /\ (toasts[i].update_reciever = None /\ handle # i)
               => toasts'[j].update_reciever = None
            /\ handle = 0 => handle' # j]_vars

\* a show in which an Idle toast took its fallback options on a disconnect and
\* already counted them down, and was not dismissed
C5_Witness ==
    /\ frame.op = "show"
    /\ \E i \in 1..Len(toasts) :
          /\ frame.painted[i].chan = "fallback"
          /\ frame.painted[i].began = "Idle"
          /\ toasts[i].options.duration = <<2, 1>>
          /\ toasts[i].options.level = "Error"
          /\ toasts[i].state = "Idle"
          /\ toasts[i].update_reciever = None

\* C6: right after create_channel on a toast, before any show, the toast has
\* no duration, is not closable and holds a live subscription, whatever its
\* options were; its caption, level, progress-bar flag, state and value are
\* those it had, and no other toast is touched.
C6_CreateChannelEffect ==
    [][frame'.op = "create_channel" =>
          /\ Len(toasts') = Len(toasts)
          /\ handle \in 1..Len(toasts)
          /\ \A i \in 1..Len(toasts) :
                IF i = handle
                THEN /\ toasts'[i].options.duration = None
                     /\ toasts'[i].options.closable = FALSE
                     /\ IsSome(toasts'[i].update_reciever)
                     /\ TryRecv(toasts'[i].update_reciever[1]) = "Empty"
                     /\ toasts'[i].caption = toasts[i].caption
                     /\ toasts'[i].options.level = toasts[i].options.level
                     /\ toasts'[i].options.show_progress_bar
                            = toasts[i].options.show_progress_bar
                     /\ toasts'[i].state = toasts[i].state
                     /\ toasts'[i].value = toasts[i].value
                ELSE toasts'[i] = toasts[i]]_vars

\* create_channel has just returned on a toast configured away from the
\* defaults and already dismissed
C6_Witness ==
    /\ frame.op = "create_channel"
    /\ handle \in 1..Len(toasts)
    /\ toasts[handle].options.duration = None
    /\ ~toasts[handle].options.closable
    /\ IsSome(toasts[handle].update_reciever)
    /\ toasts[handle].caption = CaptionB
    /\ toasts[handle].options.level = "Info"
    /\ ~toasts[handle].options.show_progress_bar
    /\ toasts[handle].state = "Disapper"

\* C7: after every show, each toast's toast_hovered flag tells whether the
\* hover position of that frame lies in the toast's rectangle (false without a
\* hover position), and cross_hovered likewise for the close icon's rectangle,
\* closable or not.
C7_HoverFlagsFresh ==
    frame.op = "show" =>
        \A i \in 1..Len(frame.painted) :
            /\ toasts[i].toast_hovered = frame.painted[i].in_toast
            /\ toasts[i].cross_hovered = frame.painted[i].in_cross

\* C8: a toast that is Idle with a duration whose remaining time is <= 0 when
\* show starts enters Disappearing in that show and is not Idle when it
\* returns, hovered or not.
C8_ExpiredIdleLeavesIdle ==
    [][\A i \in 1..Len(toasts) :
          (/\ ShowStep
           /\ toasts[i].state = "Idle"
           /\ IsSome(toasts[i].options.duration)
           /\ toasts[i].options.duration[2] <= 0)
          => \E j \in 1..Len(toasts') :
                /\ Same(i, j)
                /\ frame'.painted[j].was = "Idle"
                /\ frame'.painted[j].began = "Disapper"
                /\ toasts'[j].state \in {"Disapper", "Disappeared"}]_vars

\* a show in which a hovered Idle toast whose time had run out to exactly zero
\* began to disappear
C8_Witness ==
    /\ frame.op = "show"
    /\ \E i \in 1..Len(toasts) :
          /\ frame.painted[i].was = "Idle"
          /\ frame.painted[i].began = "Disapper"
          /\ frame.painted[i].in_toast
          /\ toasts[i].toast_hovered
          /\ toasts[i].options.duration = <<2, 0>>
          /\ toasts[i].state = "Disapper"

\* C9: once a toast has been Disappearing (or Disappeared) it is never Idle nor
\* Appearing again.
C9_NeverBackToIdle ==
    [][\A i \in 1..Len(toasts), j \in 1..Len(toasts') :
          (Same(i, j) /\ toasts[i].state \in {"Disapper", "Disappeared"})
          => toasts'[j].state \in {"Disapper", "Disappeared"}]_vars

\* a toast that vanished and was dismissed again: Disappearing, not Idle
C9_Witness ==
    \E i \in 1..Len(toasts) :
        /\ toasts[i].state = "Disapper"
        /\ toasts[i].value < 0
        /\ frame.op = "show"
        /\ frame.painted[i].was = "Disapper"

Ids(ts) == [i \in 1..Len(ts) |-> ts[i].id]

WasThere(id) == \E i \in 1..Len(toasts) : toasts[i].id = id

\* C10: show removes exactly the toasts that are Disappeared when it starts and
\* keeps the others in their order; no other operation removes a toast.
C10_OnlyPruningRemoves ==
    [][IF ShowStep
       THEN Ids(toasts') = Ids(Prune(toasts))
       ELSE SelectSeq(Ids(toasts'), WasThere) = Ids(toasts)]_vars

\* a show that pruned the first toast and kept the second, on whose close icon
\* the press of that frame landed
C10_Witness ==
    /\ frame.op = "show"
    /\ Len(toasts) = 1
    /\ toasts[1].id = 2
    /\ frame.painted[1].hit
    /\ toasts[1].state = "Disapper"

\* C11: a toast that is Disappeared when show starts (no dismiss_* call having
\* touched it since the show that made it so) is removed by that show before
\* any per-frame work: it is not in the collection afterwards, and the pass
\* visits exactly the other toasts, each once, in order.
C11_DisappearedPrunedFirst ==
    [][ShowStep =>
          /\ \A i \in 1..Len(toasts) :
                toasts[i].state = "Disappeared"
                => \A j \in 1..Len(toasts') : ~Same(i, j)
          /\ Len(frame'.painted) = Len(toasts')
          /\ \A j \in 1..Len(toasts') :
                \E i \in 1..Len(toasts) :
                    /\ Same(i, j)
                    /\ toasts[i].state # "Disappeared"
                    /\ frame'.painted[j].was = toasts[i].state]_vars

\* a show that removed the Disappeared first toast and visited only the second,
\* still Appearing
C11_Witness ==
    /\ frame.op = "show"
    /\ nextId = 3
    /\ Len(toasts) = 1
    /\ toasts[1].id = 2
    /\ Len(frame.painted) = 1
    /\ frame.painted[1].was = "Appear"

\* toasts receive their ids in the order they are created
IsOldest(ts, i) == \A k \in 1..Len(ts) : ts[i].id <= ts[k].id

IsLatest(ts, i) == \A k \in 1..Len(ts) : ts[i].id >= ts[k].id

\* C12: dismiss_oldest_toast dismisses the toast added earliest among those in
\* the collection, dismiss_latest_toast the one added most recently, under
\* both insertion orders; every other toast is left alone, and on an empty
\* collection both do nothing.
C12_OldestAndLatest ==
    [][/\ frame'.op = "dismiss_oldest"
          => /\ Len(toasts') = Len(toasts)
             /\ \A i \in 1..Len(toasts) :
                   toasts'[i] = IF IsOldest(toasts, i) THEN Toast_dismiss(toasts[i])
                                ELSE toasts[i]
       /\ frame'.op = "dismiss_latest"
          => /\ Len(toasts') = Len(toasts)
             /\ \A i \in 1..Len(toasts) :
                   toasts'[i] = IF IsLatest(toasts, i) THEN Toast_dismiss(toasts[i])
                                ELSE toasts[i]]_vars

\* toast i was dismissed at the end of the last show: it is Disappearing although
\* the pass did not find it so, or although the pass had animated it to value
\* <= 0 (where the pass leaves a toast Disappeared)
DismissedAtEnd(i) ==
    /\ toasts[i].state = "Disapper"
    /\ (frame.painted[i].began # "Disapper" \/ toasts[i].value <= 0)

\* C13: in one show the end-of-frame dismissal is applied to at most one toast,
\* however many close icons contain the press origin.
C13_OneDismissalPerShow ==
    frame.op = "show" =>
        /\ Cardinality({i \in 1..Len(toasts) : DismissedAtEnd(i)}) <= 1
        /\ \A i \in 1..Len(toasts) : DismissedAtEnd(i) => frame.dismiss = Some(i)

\* a show in which the close icons of two toasts contained the press origin
\* and one of the two was dismissed
C13_Witness ==
    /\ frame.op = "show"
    /\ Len(toasts) = 2
    /\ frame.painted[1].press_in_cross
    /\ frame.painted[2].press_in_cross
    /\ DismissedAtEnd(1)
    /\ toasts[2].state # "Disapper"

\* the pass of the step recorded a press on a close icon
HitIn(f) == \E j \in 1..Len(f.painted) : f.painted[j].hit

\* C14: held becomes set only in a show in which a press hits a close icon, and
\* becomes clear only in a show that observes a primary release; a show records
\* at most one press, and none while held is set and no release is observed,
\* so one press recorded per release at most, however long the button stays
\* down and whatever moves under the press origin.
C14_HeldGuardsOnePress ==
    [][/\ (~held /\ held') => (ShowStep /\ HitIn(frame'))
       /\ (held /\ ~held') => (ShowStep /\ pointer.released)
       /\ ShowStep =>
            /\ Cardinality({j \in 1..Len(frame'.painted) : frame'.painted[j].hit}) <= 1
            /\ HitIn(frame') => held'
            /\ (held /\ ~pointer.released) => (~HitIn(frame') /\ held')]_vars

\* the button is still down after an earlier press closed a toast; that toast is
\* gone, the next one has moved under the press origin and is left alone
C14_Witness ==
    /\ frame.op = "show"
    /\ held
    /\ IsSome(pointer.press_origin)
    /\ Len(toasts) = 1
    /\ toasts[1].id = 2
    /\ frame.painted[1].press_in_cross
    /\ ~frame.painted[1].hit
    /\ frame.dismiss = None
    /\ toasts[1].state = "Idle"

\* toast t is subscribed and an update is queued for it
HasUpdate(t) ==
    /\ IsSome(t.update_reciever)
    /\ TryRecv(t.update_reciever[1]) = "Ok"

\* C15: a show consumes at most one queued update per subscribed toast, the
\* oldest one, and leaves the rest queued in their order; on an empty channel with
\* a live sender it goes on without consuming or waiting.  So of k queued
\* updates exactly min(n, k) are applied after n frames, in the order sent.
C15_OneUpdatePerFrame ==
    [][\A i \in 1..Len(toasts), j \in 1..Len(toasts') :
          (Same(i, j) /\ ShowStep /\ Alive(toasts[i]) /\ IsSome(toasts[i].update_reciever))
          => LET ch == toasts[i].update_reciever[1]
             IN CASE TryRecv(ch) = "Ok" ->
                       /\ frame'.painted[j].chan = "update"
                       /\ toasts'[j].update_reciever
                              = Some([ch EXCEPT !.queue = Tail(ch.queue)])
                       /\ IsSome(Head(ch.queue).caption)
                          => toasts'[j].caption = Head(ch.queue).caption[1]
                  [] TryRecv(ch) = "Empty" ->
                       /\ frame'.painted[j].chan = "empty"
                       /\ toasts'[j].update_reciever = toasts[i].update_reciever
                       /\ toasts'[j].caption = toasts[i].caption
                  [] OTHER ->
                       /\ frame'.painted[j].chan \in {"fallback", "dismiss"}
                       /\ toasts'[j].update_reciever = None]_vars

\* a show that applied the older of two queued updates (caption only) and left
\* the younger one (level and fallback options) queued
C15_Witness ==
    /\ frame.op = "show"
    /\ \E i \in 1..Len(toasts) :
          /\ frame.painted[i].chan = "update"
          /\ toasts[i].caption = CaptionB
          /\ toasts[i].options.level = "None"
          /\ IsSome(toasts[i].update_reciever)
          /\ toasts[i].update_reciever[1].queue = <<UFallback>>

\* C16: receiving an update changes exactly the fields the update carries:
\* the caption, options.level, the stored fallback options, each if present;
\* absent fields keep their value; duration (but for the frame's countdown),
\* closable and show_progress_bar are kept; state and value are what the frame's
\* animation and end-of-frame dismissal make of them; the subscription stays.
\* The new caption is the one measured in the same show.
C16_UpdateMerge ==
    [][\A i \in 1..Len(toasts), j \in 1..Len(toasts') :
          (Same(i, j) /\ ShowStep /\ Alive(toasts[i]) /\ HasUpdate(toasts[i]))
          => LET u == Head(toasts[i].update_reciever[1].queue)
                 t == toasts[i]
                 began == frame'.painted[j].began
             IN /\ toasts'[j].caption
                       = IF IsSome(u.caption) THEN u.caption[1] ELSE t.caption
                /\ toasts'[j].fallback_options
                       = IF IsSome(u.fallback_options) THEN u.fallback_options
                         ELSE t.fallback_options
                /\ toasts'[j].options
                       = CountedDown(
                            [t.options EXCEPT
                                !.level = IF IsSome(u.level) THEN u.level[1] ELSE @],
                            began, t.toast_hovered, frame'.dt)
                /\ toasts'[j].original_options = t.original_options
                /\ IsSome(toasts'[j].update_reciever)
                /\ toasts'[j].update_reciever[1].senders
                       = t.update_reciever[1].senders
                /\ toasts'[j].value = Animate([t EXCEPT !.state = began], frame'.dt).value
                /\ toasts'[j].state
                       = IF frame'.dismiss = Some(j) THEN "Disapper"
                         ELSE Animate([t EXCEPT !.state = began], frame'.dt).state
                /\ toasts'[j].width = Measure(toasts'[j]).width
                /\ toasts'[j].height = Measure(toasts'[j]).height]_vars

\* a show that received a caption-only update on a toast that had a level and
\* stored fallback options from an earlier update: caption changed and measured,
\* level and fallback options kept
C16_Witness ==
    /\ frame.op = "show"
    /\ \E i \in 1..Len(toasts) :
          /\ frame.painted[i].chan = "update"
          /\ toasts[i].caption = CaptionB
          /\ toasts[i].options.level = "Error"
          /\ toasts[i].fallback_options = UFallback.fallback_options
          /\ toasts[i].width = Measure(toasts[i]).width
          /\ toasts[i].update_reciever[1].queue = << >>

\* the toast the step put in the collection
Newcomer == toasts'[AddIndex(toasts, reverse)]

\* the step put one toast in the collection and touched no other
OneMore ==
    /\ Len(toasts') = Len(toasts) + 1
    /\ \A i \in 1..Len(toasts) : \E j \in 1..Len(toasts') : toasts'[j] = toasts[i]
    /\ \A i \in 1..Len(toasts) : toasts[i].id # Newcomer.id

DismissAllStep ==
    frame'.op = "dismiss_all"
    => /\ Len(toasts') = Len(toasts)
       /\ \A i \in 1..Len(toasts) :
             toasts'[i] = [toasts[i] EXCEPT !.state = "Disapper"]

\* a Disappearing toast loses dt*speed in a show and is Disappeared at its end
\* iff its value is then <= 0 (unless the end-of-frame dismissal re-arms it)
ExitStep ==
    \A i \in 1..Len(toasts), j \in 1..Len(toasts') :
        (Same(i, j) /\ ShowStep /\ toasts[i].state = "Disapper")
        => /\ toasts'[j].value = toasts[i].value - frame'.dt * Speed
           /\ toasts'[j].state =
                  IF frame'.dismiss = Some(j) THEN "Disapper"
                  ELSE IF toasts'[j].value <= 0 THEN "Disappeared" ELSE "Disapper"

\* C19 as stated: dismiss_all_toasts makes every toast Disappearing, keeping its
\* value and removing none; each then loses dt*speed per frame and is
\* Disappeared in the first frame where its value is <= 0; two toasts dismissed
\* together at different values become Disappeared in different frames.
C19_DifferentFrames ==
    [][/\ DismissAllStep
       /\ ExitStep
       /\ \A i1 \in 1..Len(toasts), i2 \in 1..Len(toasts),
             j1 \in 1..Len(toasts'), j2 \in 1..Len(toasts') :
             (/\ ShowStep /\ Same(i1, j1) /\ Same(i2, j2)
              /\ toasts[i1].state = "Disapper" /\ toasts[i2].state = "Disapper"
              /\ toasts[i1].value # toasts[i2].value)
             => ~(/\ toasts'[j1].state = "Disappeared"
                  /\ toasts'[j2].state = "Disappeared")]_vars

\* C19 amended: dismiss_all_toasts makes every toast Disappearing, keeping its
\* value and removing none; each then loses dt*speed per frame and is
\* Disappeared in the first frame where its value is <= 0; of two toasts
\* dismissed together the one with the lower value is Disappeared no later than
\* the other, and in the same frame whenever that frame's dt*speed covers both
\* values.
C19_LowerValueNoLater ==
    [][/\ DismissAllStep
       /\ ExitStep
       /\ \A i1 \in 1..Len(toasts), i2 \in 1..Len(toasts),
             j1 \in 1..Len(toasts'), j2 \in 1..Len(toasts') :
             (/\ ShowStep /\ Same(i1, j1) /\ Same(i2, j2)
              /\ toasts[i1].state = "Disapper" /\ toasts[i2].state = "Disapper"
              /\ toasts[i1].value <= toasts[i2].value)
             => /\ toasts'[j2].state = "Disappeared"
                   => toasts'[j1].state = "Disappeared"
                /\ frame'.dt * Speed >= toasts[i2].value
                   => /\ toasts'[j1].state = "Disappeared"
                      /\ toasts'[j2].state = "Disappeared"]_vars

\* two toasts dismissed together at values 0.5 and 1: after the next show the
\* first is Disappeared, the second still Disappearing at 0.5
C19_Witness ==
    /\ frame.op = "show"
    /\ Len(toasts) = 2
    /\ frame.painted[1].was = "Disapper"
    /\ frame.painted[2].was = "Disapper"
    /\ toasts[1].state = "Disapper"
    /\ 2 * toasts[1].value = ONE
    /\ toasts[2].state = "Disappeared"
    /\ toasts[2].value = 0

\* C20: a toast that is Appearing when a show animates it, and that this show
\* does not dismiss, gains dt*speed; it becomes Idle, with value exactly 1, in
\* the first show where the sum reaches 1, and is Appearing with a value in
\* [0, 1) after every earlier show.
C20_AppearingReachesIdleAtOne ==
    [][/\ \A i \in 1..Len(toasts), j \in 1..Len(toasts') :
             (/\ ShowStep /\ Same(i, j)
              /\ frame'.painted[j].began = "Appear"
              /\ frame'.dismiss # Some(j))
             => IF toasts[i].value + frame'.dt * Speed >= ONE
                THEN toasts'[j].state = "Idle" /\ toasts'[j].value = ONE
                ELSE /\ toasts'[j].state = "Appear"
                     /\ toasts'[j].value = toasts[i].value + frame'.dt * Speed
       /\ \A j \in 1..Len(toasts') :
             /\ toasts'[j].state = "Appear"
                => toasts'[j].value >= 0 /\ toasts'[j].value < ONE
             /\ toasts'[j].state = "Idle" => toasts'[j].value = ONE]_vars

\* a toast that entered a show Appearing at 0.5 leaves it Idle at 1 after a
\* frame of dt*speed = 0.5
C20_Witness ==
    /\ frame.op = "show"
    /\ 2 * frame.dt * Speed = ONE
    /\ Len(toasts) = 1
    /\ frame.painted[1].was = "Appear"
    /\ frame.painted[1].began = "Appear"
    /\ frame.dismiss = None
    /\ toasts[1].state = "Idle"
    /\ toasts[1].value = ONE

\* the toast has no duration and is not closable
Untimed(t) == t.options.duration = None /\ ~t.options.closable

\* the toast is bound to a channel whose sender is alive
BoundAlive(t) == IsSome(t.update_reciever) /\ t.update_reciever[1].senders

\* a show moves no toast without duration and not closable to Disappearing,
\* whatever the frame time and the pointer do, unless its channel reports the
\* disconnect in that show
UntimedStays ==
    \A i \in 1..Len(toasts) :
        (ShowStep /\ Untimed(toasts[i]) /\ toasts[i].state \in {"Appear", "Idle"})
        => \E j \in 1..Len(toasts') :
              /\ Same(i, j)
              /\ \/ frame'.painted[j].chan \in {"dismiss", "fallback"}
                 \/ toasts'[j].state \in {"Appear", "Idle"}

\* C21 as stated: show never moves a toast with duration None and closable
\* false to Disappearing unless its subscription observes a disconnect; in
\* particular every toast bound with create_channel whose sender is alive and
\* on which nothing is called afterwards stays in the collection.
C21_BoundToastStays ==
    [][/\ UntimedStays
       /\ \A i \in 1..Len(toasts) :
             (ShowStep /\ BoundAlive(toasts[i]))
             => \E j \in 1..Len(toasts') : Same(i, j)]_vars

\* C21 amended: show never moves a toast with duration None and closable false
\* to Disappearing unless its subscription observes a disconnect; in
\* particular a toast bound with create_channel whose sender is alive, that
\* was not dismissed before it was bound and on which nothing is called
\* afterwards, stays in the collection, Appearing or Idle, while updates are
\* merged into it.
C21_UndismissedBoundToastStays ==
    [][/\ UntimedStays
       /\ \A i \in 1..Len(toasts) :
             (/\ ShowStep /\ BoundAlive(toasts[i])
              /\ toasts[i].state \in {"Appear", "Idle"})
             => \E j \in 1..Len(toasts') :
                   /\ Same(i, j)
                   /\ toasts'[j].state \in {"Appear", "Idle"}
                   /\ BoundAlive(toasts'[j])
                   /\ Untimed(toasts'[j])]_vars

\* a bound toast whose sender is alive has just merged an update in a show
\* where the pointer is pressed on the place of its close icon and hovers it
C21_Witness ==
    /\ frame.op = "show"
    /\ Len(toasts) >= 1
    /\ BoundAlive(toasts[1])
    /\ frame.painted[1].chan = "update"
    /\ frame.painted[1].was = "Idle"
    /\ pointer.press_origin = Some(PCross1)
    /\ frame.painted[1].in_toast
    /\ toasts[1].state = "Idle"
    /\ toasts[1].caption = CaptionB

\* remaining <= initial in a set of options
DurationOk(o) == IsSome(o.duration) => o.duration[2] <= o.duration[1]

\* remaining <= initial in every set of options the collection holds
DurationsOk ==
    /\ DurationOk(default_options)
    /\ \A i \in 1..Len(toasts) :
          /\ DurationOk(toasts[i].options)
          /\ DurationOk(toasts[i].original_options)
          /\ IsSome(toasts[i].fallback_options)
             => DurationOk(toasts[i].fallback_options[1])
          /\ IsSome(toasts[i].update_reciever)
             => \A k \in 1..Len(toasts[i].update_reciever[1].queue) :
                   LET u == toasts[i].update_reciever[1].queue[k]
                   IN IsSome(u.fallback_options) => DurationOk(u.fallback_options[1])

\* C22 as stated: remaining <= initial holds for every duration after every
\* operation, and no show changes the initial duration of a toast.
C22_InitialNeverChanged ==
    [][/\ DurationsOk'
       /\ \A i \in 1..Len(toasts), j \in 1..Len(toasts') :
             (ShowStep /\ Same(i, j) /\ IsSome(toasts[i].options.duration))
             => /\ IsSome(toasts'[j].options.duration)
                /\ toasts'[j].options.duration[1] = toasts[i].options.duration[1]]_vars

\* C22 amended: remaining <= initial holds for every duration after every
\* operation; a show changes the initial duration of a toast only when it
\* replaces the toast's options by its fallback options, and then the duration
\* is that of the fallback options, less this frame's tick.
C22_InitialChangedByFallbackOnly ==
    [][/\ DurationsOk'
       /\ \A i \in 1..Len(toasts), j \in 1..Len(toasts') :
             (ShowStep /\ Same(i, j))
             => IF frame'.painted[j].chan = "fallback"
                THEN /\ IsSome(toasts[i].fallback_options)
                     /\ IsSome(toasts'[j].options.duration)
                            = IsSome(toasts[i].fallback_options[1].duration)
                     /\ IsSome(toasts'[j].options.duration)
                        => toasts'[j].options.duration[1]
                               = toasts[i].fallback_options[1].duration[1]
                ELSE /\ IsSome(toasts'[j].options.duration)
                            = IsSome(toasts[i].options.duration)
                     /\ IsSome(toasts[i].options.duration)
                        => toasts'[j].options.duration[1]
                               = toasts[i].options.duration[1]]_vars

\* a show has just replaced the options of an Idle toast by fallback options
\* and ticked their countdown in the same frame
C22_Witness ==
    /\ frame.op = "show"
    /\ Len(toasts) >= 1
    /\ frame.painted[1].chan = "fallback"
    /\ frame.painted[1].was = "Idle"
    /\ IsSome(toasts[1].options.duration)
    /\ toasts[1].options.duration[2] < toasts[1].options.duration[1]

\* C23: add puts the new toast after all the others when reverse is false and
\* before all of them when reverse is true, leaves the others in their order,
\* and returns a reference to the toast just added: a setter or dismiss called
\* on it changes that toast and no other.
C23_AddOrderAndHandle ==
    [][/\ frame'.op = "add"
          => /\ Len(toasts') = Len(toasts) + 1
             /\ handle' = (IF reverse THEN 1 ELSE Len(toasts) + 1)
             /\ toasts'[handle'].id = nextId
             /\ \A i \in 1..Len(toasts) : toasts[i].id # nextId
             /\ \A i \in 1..Len(toasts) :
                   toasts'[IF reverse THEN i + 1 ELSE i] = toasts[i]
       /\ frame'.op \in {"set", "dismiss"}
          => /\ handle \in 1..Len(toasts)
             /\ toasts[handle].id = nextId - 1
             /\ Len(toasts') = Len(toasts)
             /\ toasts'[handle] =
                    (IF frame'.op = "set" THEN Toast_set_level(toasts[handle], "Info")
                     ELSE Toast_dismiss(toasts[handle]))
             /\ \A i \in 1..Len(toasts) : i # handle => toasts'[i] = toasts[i]]_vars

\* under reverse = true three toasts stand newest first, and set_level on the
\* reference the third add returned has changed the newest only
C23_Witness ==
    /\ reverse
    /\ frame.op = "set"
    /\ Len(toasts) = 3
    /\ toasts[1].id = 3 /\ toasts[2].id = 2 /\ toasts[3].id = 1
    /\ toasts[1].options.level = "Info"
    /\ toasts[2].options.level = "None"
    /\ toasts[3].options.level = "None"

\* C24: when a show returns with a toast Appearing or Disappearing, or Idle
\* with a countdown that this show ticked, the show has requested a repaint.
C24_RepaintWhileActive ==
    [][ShowStep
       => ((\/ \E j \in 1..Len(toasts') : toasts'[j].state \in {"Appear", "Disapper"}
            \/ \E i \in 1..Len(toasts), j \in 1..Len(toasts') :
                  /\ Same(i, j)
                  /\ toasts'[j].state = "Idle"
                  /\ frame'.painted[j].began = "Idle"
                  /\ frame'.painted[j].chan # "fallback"
                  /\ IsSome(toasts[i].options.duration)
                  /\ ~toasts[i].toast_hovered)
           => frame'.repaint)]_vars

\* C25: the height or width given to a toast with set_height or set_width is
\* the size of the box the following show places, and the height by which it
\* advances the cursor for the next toast.
C25_SetSizeIsUsed ==
    [][(ShowStep /\ frame.op \in {"set_height", "set_width"})
       => \A i \in 1..Len(toasts), j \in 1..Len(toasts') :
             Same(i, j)
             => /\ toasts'[j].height = toasts[i].height
                /\ toasts'[j].width = toasts[i].width]_vars

\* the toast is subscribed and every sender of its channel is gone
SendersGone(t) == IsSome(t.update_reciever) /\ ~t.update_reciever[1].senders

\* C26 as stated: once every sender is dropped, the very next show that polls
\* the toast handles the disconnect and clears the subscription, updates still
\* queued or not.
C26_DisconnectAtNextShow ==
    [][\A i \in 1..Len(toasts), j \in 1..Len(toasts') :
          (ShowStep /\ Same(i, j) /\ SendersGone(toasts[i]))
          => /\ frame'.painted[j].chan \in {"fallback", "dismiss"}
             /\ toasts'[j].update_reciever = None]_vars

\* C26 amended: once every sender is dropped, each show that polls the toast
\* first delivers one update still queued, keeping the subscription; the first
\* show that polls it with an empty queue handles the disconnect (fallback
\* options or a recorded dismissal) and clears the subscription.
C26_DisconnectAfterQueue ==
    [][\A i \in 1..Len(toasts), j \in 1..Len(toasts') :
          (ShowStep /\ Same(i, j) /\ SendersGone(toasts[i]))
          => IF toasts[i].update_reciever[1].queue = << >>
             THEN /\ frame'.painted[j].chan =
                         (IF IsSome(toasts[i].fallback_options)
                          THEN "fallback" ELSE "dismiss")
                  /\ toasts'[j].update_reciever = None
                  /\ toasts'[j].fallback_options = None
             ELSE /\ frame'.painted[j].chan = "update"
                  /\ toasts'[j].update_reciever =
                         Some([queue |-> Tail(toasts[i].update_reciever[1].queue),
                               senders |-> FALSE])]_vars

\* the sender is gone, two updates were queued: the show has delivered the
\* first, the second is still queued and the subscription is kept
C26_Witness ==
    /\ frame.op = "show"
    /\ Len(toasts) = 1
    /\ frame.painted[1].chan = "update"
    /\ SendersGone(toasts[1])
    /\ Len(toasts[1].update_reciever[1].queue) = 1

\* C27: when the press guard is not set and the close icons of two closable
\* toasts both contain the press origin, the toast dismissed at the end of the
\* show is the one visited last.
C27_LastPressedWins ==
    frame.op = "show" =>
        \A i \in 1..Len(frame.painted), k \in 1..Len(frame.painted) :
            (/\ i < k
             /\ frame.painted[i].press_in_cross
             /\ frame.painted[k].press_in_cross
             /\ \A n \in (k + 1)..Len(frame.painted) :
                   ~frame.painted[n].press_in_cross
             /\ \E n \in 1..Len(frame.painted) : frame.painted[n].hit)
            => frame.dismiss = Some(k)

\* C28: the expiry pre-pass of show changes the state of Idle toasts only: a
\* toast that is Appearing with a remaining duration <= 0 is still Appearing
\* after the pre-pass and leaves the show Appearing or Idle.
C28_PrepassSparesAppearing ==
    [][\A i \in 1..Len(toasts), j \in 1..Len(toasts') :
          (/\ ShowStep /\ Same(i, j)
           /\ toasts[i].state = "Appear"
           /\ IsSome(toasts[i].options.duration)
           /\ toasts[i].options.duration[2] <= 0)
          => /\ frame'.painted[j].began = "Appear"
             /\ toasts'[j].state \in {"Appear", "Idle"}]_vars

\* the duration a toast has at the tick step of a show: that of its fallback
\* options when this show has just put them in place, its own otherwise
DurationAtTick(t, chan) ==
    IF chan = "fallback" THEN t.fallback_options[1].duration ELSE t.options.duration

\* C29: a show takes exactly dt off a toast's remaining duration if, at the
\* tick step, the toast has a duration, is Idle and is not flagged hovered; it
\* leaves the remaining duration as it is if the toast is Appearing,
\* Disappearing or flagged hovered.  The initial duration is not touched.
C29_TickIffIdleUnhovered ==
    [][\A i \in 1..Len(toasts), j \in 1..Len(toasts') :
          (ShowStep /\ Same(i, j))
          => toasts'[j].options.duration =
                 (IF /\ IsSome(DurationAtTick(toasts[i], frame'.painted[j].chan))
                     /\ frame'.painted[j].began = "Idle"
                     /\ ~toasts[i].toast_hovered
                  THEN <<DurationAtTick(toasts[i], frame'.painted[j].chan)[1],
                         DurationAtTick(toasts[i], frame'.painted[j].chan)[2]
                             - frame'.dt>>
                  ELSE DurationAtTick(toasts[i], frame'.painted[j].chan))]_vars

\* two toasts with a duration that entered a show of dt = 1 Idle: the first,
\* under the pointer since it appeared, still has all its time; the second has
\* been ticked once
C29_Witness ==
    /\ frame.op = "show"
    /\ frame.dt = 1
    /\ Len(toasts) = 2
    /\ frame.painted[1].was = "Idle"
    /\ frame.painted[1].began = "Idle"
    /\ frame.painted[2].was = "Idle"
    /\ frame.painted[2].began = "Idle"
    /\ frame.painted[1].in_toast
    /\ toasts[1].toast_hovered
    /\ toasts[1].options.duration = <<2, 2>>
    /\ ~toasts[2].toast_hovered
    /\ toasts[2].options.duration = <<2, 1>>

\* the layout cursor a show has when it reaches toast k: the anchor position,
\* moved once for every toast before k
RECURSIVE CursorAt(_, _, _)
CursorAt(a, ts, k) ==
    IF k = 1 THEN pos_in_rect_with_margin(a, ScreenRect)
    ELSE offset_height(a, CursorAt(a, ts, k - 1), Spacing + ts[k - 1].height)

\* the rectangle toast k is heading for: its box at the cursor
TargetRect(a, ts, k) ==
    align_size_to_pos(a, CursorAt(a, ts, k), ts[k].width, ts[k].height)

\* two rectangles share more than an edge vertically
OverlapY(r1, r2) == r1.min.y < r2.max.y /\ r2.min.y < r1.max.y

\* C30: under each of the nine anchors the target rectangles one show computes
\* for two consecutive toasts do not overlap vertically: the cursor of the later
\* one is spacing + height of the earlier one away from the earlier one's.
C30_NoVerticalOverlap ==
    frame.op = "show" =>
        \A k \in 1..(Len(toasts) - 1) :
            /\ ~OverlapY(TargetRect(anchor, toasts, k),
                         TargetRect(anchor, toasts, k + 1))
            /\ CursorAt(anchor, toasts, k + 1).y - CursorAt(anchor, toasts, k).y
                   \in {Spacing + toasts[k].height,
                        0 - (Spacing + toasts[k].height)}

\* the last operation was a show during which the button was down on a point
\* outside every close icon
HeldOutside ==
    /\ frame.op = "show"
    /\ IsSome(pointer.press_origin)
    /\ \A n \in 1..Len(frame.painted) : ~frame.painted[n].press_in_cross

\* C31: a press that went down outside every close icon and stays down
\* dismisses no toast in the later frames of that press, even when a toast is
\* removed and the close icon of another moves over the press origin.
C31_NoDismissalLaterInPress ==
    [][(HeldOutside /\ ShowStep)
       => \A j \in 1..Len(frame'.painted) : ~frame'.painted[j].hit]_vars

\* the toast created as number id is in the collection
Has(id) == \E i \in 1..Len(toasts) : toasts[i].id = id

\* dismiss was applied, or the toast is Idle with no time left
OnItsWayOut(t) ==
    \/ t.state = "Disapper"
    \/ (/\ t.state = "Idle"
        /\ IsSome(t.options.duration)
        /\ t.options.duration[2] <= 0)

HasDuration(t) == IsSome(t.options.duration)

\* the toast created as number id is in the collection, on its way out
Leaving(id) ==
    \E i \in 1..Len(toasts) : toasts[i].id = id /\ OnItsWayOut(toasts[i])

\* the toast created as number id is in the collection, with a duration
Timed(id) ==
    \E i \in 1..Len(toasts) : toasts[i].id = id /\ HasDuration(toasts[i])

\* C32: while show keeps being called with dt > 0, every toast that was
\* dismissed, and every Idle toast whose remaining duration reached 0, is
\* eventually removed from the collection (dismiss not being applied to it
\* again), and every toast with a duration that is never hovered eventually
\* gets there.
C32_EventuallyRemoved ==
    \A id \in 1..MaxAdds :
        /\ Leaving(id) ~> ~Has(id)
        /\ Timed(id) ~> (Leaving(id) \/ ~Has(id))

\* the first toast is gone and the second, Idle with no time left when the
\* show began, has been sent away by the pre-pass
C32_Witness ==
    /\ frame.op = "show"
    /\ nextId = 3
    /\ Len(toasts) = 1
    /\ toasts[1].id = 2
    /\ frame.painted[1].was = "Idle"
    /\ frame.painted[1].began = "Disapper"
    /\ HasDuration(toasts[1])
    /\ toasts[1].options.duration[2] <= 0
    /\ toasts[1].state \in {"Disapper", "Disappeared"}

\* the toast the pass of this step recorded for dismissal, by its index, is one
\* of the toasts the pass went over and is the one dismissed at the end
RecordedInBounds ==
    IsSome(frame'.dismiss) =>
        /\ frame'.dismiss[1] \in 1..Len(toasts')
        /\ toasts'[frame'.dismiss[1]].id = Prune(toasts)[frame'.dismiss[1]].id
        /\ toasts'[frame'.dismiss[1]].state = "Disapper"
        /\ \/ frame'.painted[frame'.dismiss[1]].hit
           \/ frame'.painted[frame'.dismiss[1]].chan = "dismiss"

\* C33: no operation fails: the index a show pass records for dismissal (by a
\* press or by a disconnect) refers to a toast that is still in the collection
\* when the dismissal is applied at the end of the frame, and
\* dismiss_oldest_toast, dismiss_latest_toast, dismiss_all_toasts and show on
\* an empty collection leave it empty
C33_NoOperationFails ==
    [][/\ ShowStep =>
            /\ Len(toasts') = Len(Prune(toasts))
            /\ Len(frame'.painted) = Len(toasts')
            /\ RecordedInBounds
       /\ (/\ Len(toasts) = 0
           /\ frame'.op \in {"dismiss_oldest", "dismiss_latest", "dismiss_all", "show"})
          => Len(toasts') = 0]_vars

\* a pass that recorded a disconnect on the first toast and then a press on the
\* last one, and dismissed the last
C33_Witness ==
    /\ frame.op = "show"
    /\ Len(toasts) = 2
    /\ frame.dismiss = Some(2)
    /\ frame.painted[1].chan = "dismiss"
    /\ frame.painted[2].hit
    /\ toasts[2].state = "Disapper"

====
